---- MODULE Spec2Model ----
(***************************************************************************)
(* Model of the PNG image adapter (be_image_png.cpp) and of the LogSheet   *)
(* entry counter (be_io_logcabinet.h).                                     *)
(*                                                                         *)
(* The PNG adapter is a wrapper over libpng.  The codec is modelled by     *)
(* what the adapter observes of it: the header fields it reports, the      *)
(* bytes it asks the read callback for, the errors it raises through the   *)
(* error callback, and the rows it writes through the row pointers.        *)
(***************************************************************************)
EXTENDS Integers, Sequences, FiniteSets, TLC

VARIABLES
    \* ---- PNG adapter -------------------------------------------------
    img,            \* the encoded data the adapter owns (Image::_data)
    identifier,     \* Image identifier given at construction
    cbRaises,       \* whether the caller's statusCallback raises on an error
    littleEndian,   \* Memory::isLittleEndian() of the host
    pc,             \* "new" | "constructed" | "failed" | "crashed"
    meta,           \* metadata set by the constructor
    liveSessions,   \* codec sessions created and not yet destroyed
    trace,          \* codec/callback events of the last call, in order
    result,         \* how the last call ended
    raw,            \* buffer returned by the last getRawData
    prevRaw,        \* buffer returned by the successful getRawData before it
    calls,          \* number of getRawData calls made
    lastOp,         \* "none" | "PNG" | "getRawData"
    \* ---- isPNG -------------------------------------------------------
    sigData,        \* the buffer handed to isPNG
    sigResult,      \* "none" | TRUE/FALSE as string "true"/"false"
    \* ---- png_read_mem_src --------------------------------------------
    input,          \* the png_buffer: data, size, offset
    rdReq,          \* last request: length and offset before it
    rdOut,          \* last outcome: threw, copied bytes, indices read
    \* ---- LogSheet ----------------------------------------------------
    entryNumber,    \* LogSheet::_entryNumber
    autoSync,       \* LogSheet::_autoSync
    pending,        \* the stream's current entry text
    logFile,        \* entries written to the file
    nCompleted,     \* write and newEntry calls completed so far
    logOp           \* last LogSheet operation and its return value

pngVars == <<img, identifier, cbRaises, littleEndian, pc, meta, liveSessions,
             trace, result, raw, prevRaw, calls, lastOp>>
sigVars == <<sigData, sigResult>>
rdVars  == <<input, rdReq, rdOut>>
logVars == <<entryNumber, autoSync, pending, logFile, nCompleted, logOp>>
vars    == <<pngVars, sigVars, rdVars, logVars>>

(***************************************************************************)
(* Bounds of the model.                                                    *)
(***************************************************************************)
MaxCalls   == 2         \* getRawData calls per adapter
BigWidth   == 1000000   \* a wide image (libpng's default width limit)
BigHeight  == 600       \* rows of the wide image
HdrLen     == 4         \* bytes the codec reads for the header
PixLen     == 4         \* bytes the codec reads for the pixels
MaxSigLen  == 10        \* longest buffer handed to isPNG
MaxSize    == 4         \* largest png_buffer
MaxReq     == 6         \* largest read request
MaxLogOps  == 4         \* LogSheet write and newEntry calls
MaxPending == 2         \* length of the pending entry text

(***************************************************************************)
(* Unsigned machine integers.  A value is four 16-bit limbs, least         *)
(* significant first, so that 32-bit and 64-bit arithmetic is computed     *)
(* exactly, wrap-around included.                                          *)
(***************************************************************************)
LimbBase == 2^16
Wide(n) == <<n % LimbBase, n \div LimbBase, 0, 0>>      \* n below 2^31

\* a + b, 64-bit unsigned.
WAdd(a, b) ==
    LET s1 == a[1] + b[1]
        s2 == a[2] + b[2] + s1 \div LimbBase
        s3 == a[3] + b[3] + s2 \div LimbBase
        s4 == a[4] + b[4] + s3 \div LimbBase
    IN  <<s1 % LimbBase, s2 % LimbBase, s3 % LimbBase, s4 % LimbBase>>

\* a - b, 64-bit unsigned.
WSub(a, b) ==
    LET d1 == a[1] - b[1]
        d2 == a[2] - b[2] - (IF d1 < 0 THEN 1 ELSE 0)
        d3 == a[3] - b[3] - (IF d2 < 0 THEN 1 ELSE 0)
        d4 == a[4] - b[4] - (IF d3 < 0 THEN 1 ELSE 0)
    IN  <<d1 % LimbBase, d2 % LimbBase, d3 % LimbBase, d4 % LimbBase>>

\* a * n, 64-bit unsigned, n a natural below 2^31: limb by limb when n is
\* below 2^15, by doubling otherwise.
RECURSIVE WMul(_, _)
WMul(a, n) ==
    IF n < 2^15
    THEN LET p1 == a[1] * n
             p2 == a[2] * n + p1 \div LimbBase
             p3 == a[3] * n + p2 \div LimbBase
             p4 == a[4] * n + p3 \div LimbBase
         IN  <<p1 % LimbBase, p2 % LimbBase, p3 % LimbBase, p4 % LimbBase>>
    ELSE LET h == WMul(WAdd(a, a), n \div 2) IN
         IF n % 2 = 1 THEN WAdd(h, a) ELSE h

WLess(a, b) ==
    \/ a[4] < b[4]
    \/ a[4] = b[4] /\ a[3] < b[3]
    \/ a[4] = b[4] /\ a[3] = b[3] /\ a[2] < b[2]
    \/ a[4] = b[4] /\ a[3] = b[3] /\ a[2] = b[2] /\ a[1] < b[1]
WLeq(a, b) == a = b \/ WLess(a, b)

\* Conversion to a 32-bit unsigned value.
U32(a) == <<a[1], a[2], 0, 0>>
\* a * n and a + b in 32-bit unsigned arithmetic.
Mul32(a, n) == U32(WMul(a, n))

(***************************************************************************)
(* libpng constants used by the adapter.                                   *)
(***************************************************************************)
PNG_COLOR_MASK_PALETTE == 1
PNG_COLOR_MASK_ALPHA   == 4
PNG_COLOR_TYPE_GRAY    == 0
PNG_COLOR_TYPE_PALETTE == 3
PNG_RESOLUTION_UNKNOWN == 0
PNG_RESOLUTION_METER   == 1
PNG_RESOLUTION_LAST    == 2
PNG_SIG_LENGTH         == 8

RECURSIVE BitAnd(_, _)
BitAnd(a, b) ==
    IF a = 0 \/ b = 0 THEN 0
    ELSE (IF a % 2 = 1 /\ b % 2 = 1 THEN 1 ELSE 0)
         + 2 * BitAnd(a \div 2, b \div 2)

(***************************************************************************)
(* Exceptions and events.                                                  *)
(***************************************************************************)
NoExc == [kind |-> "none", msg |-> ""]
StrategyError(m) == [kind |-> "StrategyError", msg |-> m]
CallbackException == [kind |-> "CallbackException", msg |-> "raised by statusCallback"]
Crash == [kind |-> "crash", msg |-> ""]

Ev(name) == [ev |-> name, msg |-> "", id |-> ""]
StatusEv(m, id) == [ev |-> "statusCallback", msg |-> m, id |-> id]

(***************************************************************************)
(* png_read_mem_src: the read callback the codec calls for encoded bytes.  *)
(* io_null: png_get_io_ptr(png_ptr) == nullptr.  in: the png_buffer.       *)
(* size is uint64_t; the subtraction is unsigned.  Indices are 1-based:    *)
(* byte data[offset + i - 1] of the code is in.data[offset + i].           *)
(***************************************************************************)
OutOfBounds == 0 - 1   \* what a read past the end of the source yields: not a byte

\* Mutant: the bound check forgets the bytes already consumed.
png_read_mem_src_nocheck_offset(io_null, in, length) ==
    IF io_null
    THEN [exc |-> StrategyError("Lost current offset while reading from memory"),
          offset |-> 0, copied |-> <<>>, readIdx |-> {}]
    ELSE IF length > in.size
    THEN [exc |-> StrategyError("Attempted to read more data than available"),
          offset |-> in.offset, copied |-> <<>>, readIdx |-> {}]
    ELSE [exc |-> NoExc,
          offset |-> in.offset + length,
          copied |-> [i \in 1..length |->
                        IF in.offset + i <= in.size THEN in.data[in.offset + i]
                        ELSE OutOfBounds],
          readIdx |-> {in.offset + i : i \in 1..length}]

png_read_mem_src(io_null, in, length) ==
    IF io_null
    THEN [exc |-> StrategyError("Lost current offset while reading from memory"),
          offset |-> 0, copied |-> <<>>, readIdx |-> {}]
    ELSE IF WLess(WSub(Wide(in.size), Wide(in.offset)), Wide(length))
    THEN [exc |-> StrategyError("Attempted to read more data than available"),
          offset |-> in.offset, copied |-> <<>>, readIdx |-> {}]
    ELSE [exc |-> NoExc,
          offset |-> in.offset + length,
          copied |-> [i \in 1..length |->
                        IF in.offset + i <= in.size THEN in.data[in.offset + i]
                        ELSE OutOfBounds],
          readIdx |-> {in.offset + i : i \in 1..length}]

(***************************************************************************)
(* png_error_callback: notify the status callback, then throw.             *)
(* userDataNull: png_get_error_ptr(png_ptr) == nullptr.  A status callback *)
(* that raises ends the function with its own exception.                   *)
(***************************************************************************)
png_error_callback(userDataNull, msg) ==
    IF userDataNull
    THEN [events |-> <<>>, exc |-> StrategyError(msg)]
    ELSE [events |-> <<StatusEv(msg, identifier)>>,
          exc |-> IF cbRaises THEN CallbackException ELSE StrategyError(msg)]

(***************************************************************************)
(* The codec, as the adapter sees it.                                      *)
(***************************************************************************)
png_buf_init == [data |-> [i \in 1..img.size |-> 0], size |-> img.size, offset |-> 0]

CodecMsg(where) == IF where = "header" THEN "IHDR: CRC error" ELSE "IDAT: CRC error"

\* png_read_info: reads the header bytes through the read callback and
\* raises a codec error through the error callback when they are corrupt.
png_read_info(buf) ==
    LET rd == png_read_mem_src(FALSE, buf, HdrLen) IN
    IF rd.exc # NoExc
    THEN [exc |-> rd.exc, events |-> <<Ev("png_read_info"), Ev("png_read_mem_src")>>,
          offset |-> rd.offset]
    ELSE IF img.corrupt = "header"
    THEN LET e == png_error_callback(FALSE, CodecMsg("header")) IN
         [exc |-> e.exc,
          events |-> <<Ev("png_read_info"), Ev("png_read_mem_src"), Ev("png_error")>>
                     \o e.events,
          offset |-> rd.offset]
    ELSE [exc |-> NoExc, events |-> <<Ev("png_read_info"), Ev("png_read_mem_src")>>,
          offset |-> rd.offset]

\* png_read_image: reads the pixel bytes through the read callback, raises a
\* codec error when they are corrupt, and writes every row at its pointer.
png_read_image(buf) ==
    LET rd == png_read_mem_src(FALSE, buf, PixLen) IN
    IF rd.exc # NoExc
    THEN [exc |-> rd.exc, events |-> <<Ev("png_read_image"), Ev("png_read_mem_src")>>]
    ELSE IF img.corrupt = "pixels"
    THEN LET e == png_error_callback(FALSE, CodecMsg("pixels")) IN
         [exc |-> e.exc,
          events |-> <<Ev("png_read_image"), Ev("png_read_mem_src"), Ev("png_error")>>
                     \o e.events]
    ELSE [exc |-> NoExc, events |-> <<Ev("png_read_image"), Ev("png_read_mem_src")>>]

png_get_channels(colorType) ==
    CASE colorType = 0 -> 1
      [] colorType = 2 -> 3
      [] colorType = 3 -> 1
      [] colorType = 4 -> 2
      [] colorType = 6 -> 4

\* The header after png_read_update_info, for the transformations requested
\* (expand: any of the three expansions; trns: tRNS-to-alpha with tRNS valid).
png_read_update_info(bitDepth, colorType, expand, trns) ==
    IF ~expand THEN [bitDepth |-> bitDepth, colorType |-> colorType]
    ELSE IF colorType = PNG_COLOR_TYPE_PALETTE
    THEN [bitDepth |-> 8,
          colorType |-> IF trns THEN 6 ELSE 2]      \* RGB with alpha, RGB
    ELSE [bitDepth |-> IF bitDepth < 8 THEN 8 ELSE bitDepth,
          colorType |-> IF trns /\ BitAnd(colorType, PNG_COLOR_MASK_ALPHA) = 0
                        THEN colorType + PNG_COLOR_MASK_ALPHA ELSE colorType]

png_get_rowbytes(width, bitDepth, colorType) ==
    LET pixelDepth == bitDepth * png_get_channels(colorType) IN
    IF pixelDepth >= 8 THEN width * (pixelDepth \div 8)
    ELSE (width * pixelDepth + 7) \div 8

(***************************************************************************)
(* Constructor: color depth, resolution, alpha flag.                       *)
(***************************************************************************)
\* Mutant: the palette coercion is left out.
ColorDepthOf_nocoerce(pngBitDepth, channels, colorType) ==
    pngBitDepth * channels

ColorDepthOf(pngBitDepth, channels, colorType) ==
    LET depth == pngBitDepth * channels IN
    IF depth <= 8
       /\ BitAnd(colorType, PNG_COLOR_MASK_PALETTE) = PNG_COLOR_MASK_PALETTE
    THEN 24
    ELSE depth

\* A value as a fraction <<numerator, denominator>>.
Whole(n) == <<n, 1>>
DivBy100(n) == <<n, 100>>      \* n / 100.0
Resolution(x, y, units) == [xRes |-> x, yRes |-> y, units |-> units]

\* Mutant: the unit of the pHYs block is ignored.
ResolutionOf_anyunit(pHYs) ==
    IF pHYs.present
    THEN Resolution(DivBy100(pHYs.xres), DivBy100(pHYs.yres), "PPCM")
    ELSE Resolution(Whole(72), Whole(72), "PPI")

\* pHYs.present: png_get_pHYs(...) == PNG_INFO_pHYs.
ResolutionOf(pHYs) ==
    IF pHYs.present
    THEN CASE pHYs.type = PNG_RESOLUTION_METER ->
                Resolution(DivBy100(pHYs.xres), DivBy100(pHYs.yres), "PPCM")
           [] pHYs.type = PNG_RESOLUTION_UNKNOWN ->
                Resolution(Whole(0), Whole(0), "PPCM")
           [] pHYs.type = PNG_RESOLUTION_LAST ->
                Resolution(Whole(0), Whole(0), "PPCM")
           [] OTHER ->
                Resolution(Whole(0), Whole(0), "PPCM")
    ELSE Resolution(Whole(72), Whole(72), "PPI")

HasAlphaOf(color_type) ==
    BitAnd(color_type, PNG_COLOR_MASK_ALPHA) = PNG_COLOR_MASK_ALPHA

NoMeta == [bitDepth |-> 0, colorDepth |-> 0, width |-> 0, height |-> 0,
           res |-> Resolution(Whole(0), Whole(0), "NA"), hasAlpha |-> FALSE]

(***************************************************************************)
(* getRawData: transformation requests, buffer size, row pointers.         *)
(***************************************************************************)
\* Mutant: the info is updated whether or not a transformation was requested.
Transformations_always(pngBitDepth, color_type, trnsValid) ==
    LET swap    == pngBitDepth > 8 /\ littleEndian
        gray    == color_type = PNG_COLOR_TYPE_GRAY /\ pngBitDepth < 8
        palette == color_type = PNG_COLOR_TYPE_PALETTE
        did     == gray \/ palette \/ trnsValid
        after   == png_read_update_info(pngBitDepth, color_type, did, trnsValid)
    IN  [events |-> (IF swap THEN <<Ev("png_set_swap")>> ELSE <<>>)
                    \o (IF gray THEN <<Ev("png_set_expand_gray_1_2_4_to_8")>> ELSE <<>>)
                    \o (IF palette THEN <<Ev("png_set_palette_to_rgb")>> ELSE <<>>)
                    \o (IF trnsValid THEN <<Ev("png_set_tRNS_to_alpha")>> ELSE <<>>)
                    \o <<Ev("png_read_update_info")>>,
         bitDepth |-> after.bitDepth,
         colorType |-> after.colorType]

Transformations(pngBitDepth, color_type, trnsValid) ==
    LET swap    == pngBitDepth > 8 /\ littleEndian
        gray    == color_type = PNG_COLOR_TYPE_GRAY /\ pngBitDepth < 8
        palette == color_type = PNG_COLOR_TYPE_PALETTE
        didTransformations == gray \/ palette \/ trnsValid
        after   == png_read_update_info(pngBitDepth, color_type,
                                        didTransformations, trnsValid)
    IN  [events |-> (IF swap THEN <<Ev("png_set_swap")>> ELSE <<>>)
                    \o (IF gray THEN <<Ev("png_set_expand_gray_1_2_4_to_8")>> ELSE <<>>)
                    \o (IF palette THEN <<Ev("png_set_palette_to_rgb")>> ELSE <<>>)
                    \o (IF trnsValid THEN <<Ev("png_set_tRNS_to_alpha")>> ELSE <<>>)
                    \o (IF didTransformations THEN <<Ev("png_read_update_info")>>
                        ELSE <<>>),
         bitDepth |-> IF didTransformations THEN after.bitDepth ELSE pngBitDepth,
         colorType |-> IF didTransformations THEN after.colorType ELSE color_type]

\* rowbytes * height, both 32-bit unsigned (rowbytes a Wide value).
RawSize(rowbytes, height) == Mul32(rowbytes, height)

\* row_pointers[row] = rawData + (row * rowbytes), the product 32-bit unsigned.
row_pointers(rowbytes, height) ==
    [row \in 0..(height - 1) |-> Mul32(rowbytes, row)]

\* The codec writes rowbytes bytes at every row pointer: whether every write
\* lies inside the buffer of len bytes.
RowsInside(len, rowbytes, ptrs) ==
    \A row \in DOMAIN ptrs : WLeq(WAdd(ptrs[row], rowbytes), len)

NoRaw == [len |-> Wide(0), rowbytes |-> Wide(0), height |-> 0, rowPtrs |-> <<>>,
          content |-> "none"]

(***************************************************************************)
(* Encoded images: what the codec finds in the data.                       *)
(*   size     bytes of encoded data (the codec needs HdrLen for the header *)
(*            and PixLen more for the pixels)                              *)
(*   corrupt  where the codec detects an error: "none", "header", "pixels" *)
(*   tRNS     a valid tRNS block precedes the pixels                       *)
(***************************************************************************)
HeaderCombos ==
    {<<0, 1>>, <<0, 2>>, <<0, 4>>, <<0, 8>>, <<0, 16>>,
     <<2, 8>>, <<2, 16>>,
     <<3, 1>>, <<3, 2>>, <<3, 4>>, <<3, 8>>,
     <<4, 8>>, <<4, 16>>,
     <<6, 8>>, <<6, 16>>}        \* <<color type, bit depth>> the codec accepts

NoPHYs == [present |-> FALSE, xres |-> 0, yres |-> 0, type |-> 0]
PHYsBlocks ==
    {NoPHYs,
     [present |-> TRUE, xres |-> 3937, yres |-> 3937, type |-> 1],
     [present |-> TRUE, xres |-> 2835, yres |-> 5000, type |-> 1],
     [present |-> TRUE, xres |-> 3,    yres |-> 2,    type |-> 0],
     [present |-> TRUE, xres |-> 3937, yres |-> 3937, type |-> 2],
     [present |-> TRUE, xres |-> 3937, yres |-> 3937, type |-> 7]}

SmallDims == {<<1, 1>>, <<3, 2>>}
\* <<size, corrupt>>: complete and intact; corrupt header; corrupt pixels;
\* cut inside the header; cut inside the pixels; cut inside the pixels of a
\* data set whose header is corrupt as well.
Defects ==
    {<<HdrLen + PixLen, "none">>, <<HdrLen + PixLen, "header">>,
     <<HdrLen + PixLen, "pixels">>, <<HdrLen - 1, "none">>,
     <<HdrLen + PixLen - 1, "none">>, <<HdrLen + PixLen - 1, "header">>}

Image(ct, bd, trns, phys, w, h, size, corrupt) ==
    [colorType |-> ct, bitDepth |-> bd, tRNS |-> trns, pHYs |-> phys,
     width |-> w, height |-> h, size |-> size, corrupt |-> corrupt]

\* Every header on small images with every defect, and every header on a
\* wide, complete and intact image.
Images ==
    {Image(c[1], c[2], t, p, d[1], d[2], f[1], f[2]) :
        c \in HeaderCombos, t \in BOOLEAN, p \in PHYsBlocks,
        d \in SmallDims, f \in Defects}
    \cup
    {Image(c[1], c[2], t, NoPHYs, BigWidth, BigHeight, HdrLen + PixLen, "none") :
        c \in HeaderCombos, t \in BOOLEAN}

\* tRNS is valid only for color types without an alpha channel.
WellFormed(i) == i.tRNS => BitAnd(i.colorType, PNG_COLOR_MASK_ALPHA) = 0

(***************************************************************************)
(* PNG::PNG: what one run of the constructor does.                         *)
(* alloc: "ok", "noReadStruct" (png_create_read_struct returns nullptr),   *)
(* "noInfoStruct" (png_create_info_struct returns nullptr).                *)
(***************************************************************************)
PNG_run(alloc) ==
    LET info == png_read_info(png_buf_init)
        open == <<Ev("png_create_read_struct"), Ev("png_set_read_fn"),
                  Ev("png_create_info_struct")>>
    IN
    IF alloc = "noReadStruct"
    THEN [trace |-> <<Ev("png_create_read_struct")>>,
          result |-> StrategyError("Could not initialize reading"),
          leaked |-> 0, meta |-> NoMeta]
    ELSE IF alloc = "noInfoStruct"
    THEN [trace |-> open \o <<Ev("png_destroy_read_struct")>>,
          result |-> StrategyError("Could not initialize container for information"),
          leaked |-> 0, meta |-> NoMeta]
    ELSE IF info.exc # NoExc
    THEN [trace |-> open \o info.events,
          result |-> info.exc,
          leaked |-> 1, meta |-> NoMeta]
    ELSE [trace |-> open \o info.events \o <<Ev("png_destroy_read_struct")>>,
          result |-> NoExc,
          leaked |-> 0,
          meta |-> [bitDepth |-> img.bitDepth,
                    colorDepth |-> ColorDepthOf(img.bitDepth,
                                                png_get_channels(img.colorType),
                                                img.colorType),
                    width |-> img.width,
                    height |-> img.height,
                    res |-> ResolutionOf(img.pHYs),
                    hasAlpha |-> HasAlphaOf(img.colorType)]]

PNG(alloc) ==
    /\ pc = "new"
    /\ LET r == PNG_run(alloc) IN
        /\ trace' = r.trace
        /\ result' = r.result
        /\ liveSessions' = liveSessions + r.leaked
        /\ meta' = r.meta
        /\ pc' = IF r.result = NoExc THEN "constructed" ELSE "failed"
    /\ lastOp' = "PNG"
    /\ UNCHANGED <<img, identifier, cbRaises, littleEndian, raw, prevRaw, calls>>
    /\ UNCHANGED <<sigVars, rdVars, logVars>>

(***************************************************************************)
(* PNG::getRawData: what one run does.  oob: the codec was handed row      *)
(* pointers whose rows do not lie inside the buffer, so png_read_image     *)
(* writes outside it (undefined behaviour).                                *)
(***************************************************************************)
getRawData_run(alloc) ==
    LET info     == png_read_info(png_buf_init)
        open     == <<Ev("png_create_read_struct"), Ev("png_set_read_fn"),
                      Ev("png_create_info_struct")>>
        t        == Transformations(img.bitDepth, img.colorType, img.tRNS)
        rowbytes == U32(Wide(png_get_rowbytes(img.width, t.bitDepth, t.colorType)))
        height   == meta.height
        len      == RawSize(rowbytes, height)
        ptrs     == row_pointers(rowbytes, height)
        rd       == png_read_image([png_buf_init EXCEPT !.offset = info.offset])
        inside   == RowsInside(len, rowbytes, ptrs)
        before   == open \o info.events \o t.events \o <<Ev("png_get_rowbytes")>>
    IN
    IF alloc = "noReadStruct"
    THEN [trace |-> <<Ev("png_create_read_struct")>>,
          result |-> StrategyError("Could not initialize reading"),
          leaked |-> 0, raw |-> NoRaw, oob |-> FALSE]
    ELSE IF alloc = "noInfoStruct"
    THEN [trace |-> open \o <<Ev("png_destroy_read_struct")>>,
          result |-> StrategyError("Could not initialize container for information"),
          leaked |-> 0, raw |-> NoRaw, oob |-> FALSE]
    ELSE IF info.exc # NoExc
    THEN [trace |-> open \o info.events,
          result |-> info.exc,
          leaked |-> 1, raw |-> NoRaw, oob |-> FALSE]
    ELSE IF rd.exc # NoExc
    THEN [trace |-> before \o rd.events,
          result |-> rd.exc,
          leaked |-> 1, raw |-> NoRaw, oob |-> FALSE]
    ELSE [trace |-> before \o rd.events \o <<Ev("png_destroy_read_struct")>>,
          result |-> NoExc,
          leaked |-> 0,
          raw |-> [len |-> len, rowbytes |-> rowbytes, height |-> height,
                   rowPtrs |-> ptrs,
                   content |-> IF inside THEN "decoded" ELSE "indeterminate"],
          oob |-> ~inside]

\* Outcomes of writing rows outside the buffer: the process is killed, the
\* writes land in unused memory, or they overwrite the adapter's own heap
\* data (the encoded bytes, a metadata field).
UBOutcomes == {"segv", "harmless", "clobberData", "clobberMeta"}

getRawData(alloc) ==
    /\ pc = "constructed"
    /\ calls < MaxCalls
    /\ LET r == getRawData_run(alloc) IN
       \E ub \in (IF r.oob THEN UBOutcomes ELSE {"harmless"}) :
        IF ub = "segv"
        THEN /\ pc' = "crashed"
             /\ result' = Crash
             /\ trace' = SubSeq(r.trace, 1, Len(r.trace) - 1)
             /\ liveSessions' = 0
             /\ UNCHANGED <<img, meta, raw, prevRaw>>
        ELSE /\ pc' = pc
             /\ result' = r.result
             /\ trace' = r.trace
             /\ liveSessions' = liveSessions + r.leaked
             /\ raw' = IF r.result = NoExc THEN r.raw ELSE raw
             /\ prevRaw' = IF r.result = NoExc THEN raw ELSE prevRaw
             /\ img' = IF ub = "clobberData"
                       THEN [img EXCEPT !.corrupt = "header"] ELSE img
             /\ meta' = IF ub = "clobberMeta"
                        THEN [meta EXCEPT !.hasAlpha = ~@] ELSE meta
    /\ calls' = calls + 1
    /\ lastOp' = "getRawData"
    /\ UNCHANGED <<identifier, cbRaises, littleEndian>>
    /\ UNCHANGED <<sigVars, rdVars, logVars>>

(***************************************************************************)
(* PNG::isPNG.                                                             *)
(***************************************************************************)
Signature == <<137, 80, 78, 71, 13, 10, 26, 10>>   \* libpng's png_signature

\* png_sig_cmp(sig, start, num_to_check): 0 when the bytes checked equal the
\* signature's, nonzero otherwise.
png_sig_cmp(sig, start, num_to_check) ==
    IF \A i \in (start + 1)..(start + num_to_check) : sig[i] = Signature[i]
    THEN 0 ELSE 1

\* Mutant: a buffer of exactly PNG_SIG_LENGTH bytes is accepted.
isPNG_lt(data, size) ==
    IF size < PNG_SIG_LENGTH
    THEN FALSE
    ELSE LET header == [i \in 1..PNG_SIG_LENGTH |-> data[i]]
         IN  png_sig_cmp(header, 0, PNG_SIG_LENGTH) = 0

isPNG(data, size) ==
    IF size <= PNG_SIG_LENGTH
    THEN FALSE
    ELSE LET header == [i \in 1..PNG_SIG_LENGTH |-> data[i]]
         IN  png_sig_cmp(header, 0, PNG_SIG_LENGTH) = 0

\* Buffers: a signature prefix followed by filler, with at most one byte
\* replaced.
Filled(n, fill) ==
    [i \in 1..n |-> IF i <= PNG_SIG_LENGTH THEN Signature[i] ELSE fill]
Buffers ==
    UNION {{[Filled(n, fill) EXCEPT ![p] = v] :
                fill \in {0, 73}, p \in 1..n, v \in {0, 10, 137}} :
           n \in 1..MaxSigLen}
    \cup {<<>>}

IsPNGCall ==
    /\ ~sigResult.called
    /\ sigResult' = [called |-> TRUE, value |-> isPNG(sigData, Len(sigData))]
    /\ sigData' = sigData
    /\ UNCHANGED <<pngVars, rdVars, logVars>>

(***************************************************************************)
(* The read callback on its own: the codec asks for bytes, any number of   *)
(* times, any length.                                                      *)
(***************************************************************************)
RECURSIVE SeqsUpTo(_, _)
SeqsUpTo(S, n) ==
    IF n = 0 THEN {<<>>}
    ELSE LET shorter == SeqsUpTo(S, n - 1) IN
         shorter \cup {Append(q, x) : q \in {r \in shorter : Len(r) = n - 1}, x \in S}

ReadMemSrc(length) ==
    /\ LET r == png_read_mem_src(FALSE, input, length) IN
        /\ input' = [input EXCEPT !.offset = r.offset]
        /\ rdReq' = [made |-> TRUE, length |-> length, before |-> input.offset]
        /\ rdOut' = [exc |-> r.exc, copied |-> r.copied, readIdx |-> r.readIdx]
    /\ UNCHANGED <<pngVars, sigVars, logVars>>

(***************************************************************************)
(* LogSheet: the entry counter and the operations of the class.            *)
(* fsOk: whether the file system accepts the operation; when it does not,  *)
(* the operation ends with StrategyError and changes nothing.              *)
(***************************************************************************)
FirstEntryNumber == 0

\* Mutant: the entry number is not incremented.
NextEntryNumber_same(n) == n

NextEntryNumber(n) == n + 1

Texts == {<<"a">>}
LogRet(op, threw) == [op |-> op, threw |-> threw]

write(entry, fsOk) ==
    /\ nCompleted.write + nCompleted.newEntry < MaxLogOps
    /\ IF fsOk
       THEN /\ logFile' = Append(logFile, [num |-> entryNumber, text |-> entry])
            /\ entryNumber' = NextEntryNumber(entryNumber)
            /\ nCompleted' = [nCompleted EXCEPT !.write = @ + 1]
       ELSE UNCHANGED <<logFile, entryNumber, nCompleted>>
    /\ logOp' = LogRet("write", ~fsOk)
    /\ UNCHANGED <<autoSync, pending>>
    /\ UNCHANGED <<pngVars, sigVars, rdVars>>

newEntry(fsOk) ==
    /\ nCompleted.write + nCompleted.newEntry < MaxLogOps
    /\ IF fsOk
       THEN /\ logFile' = Append(logFile, [num |-> entryNumber, text |-> pending])
            /\ pending' = <<>>
            /\ entryNumber' = NextEntryNumber(entryNumber)
            /\ nCompleted' = [nCompleted EXCEPT !.newEntry = @ + 1]
       ELSE UNCHANGED <<logFile, pending, entryNumber, nCompleted>>
    /\ logOp' = LogRet("newEntry", ~fsOk)
    /\ UNCHANGED autoSync
    /\ UNCHANGED <<pngVars, sigVars, rdVars>>

\* operator<< of the stream the sheet is.
StreamInsert(text) ==
    /\ Len(pending) < MaxPending
    /\ pending' = pending \o text
    /\ logOp' = LogRet("operator<<", FALSE)
    /\ UNCHANGED <<entryNumber, autoSync, logFile, nCompleted>>
    /\ UNCHANGED <<pngVars, sigVars, rdVars>>

getCurrentEntry ==
    /\ logOp' = LogRet("getCurrentEntry", FALSE)
    /\ UNCHANGED <<entryNumber, autoSync, pending, logFile, nCompleted>>
    /\ UNCHANGED <<pngVars, sigVars, rdVars>>

resetCurrentEntry ==
    /\ pending' = <<>>
    /\ logOp' = LogRet("resetCurrentEntry", FALSE)
    /\ UNCHANGED <<entryNumber, autoSync, logFile, nCompleted>>
    /\ UNCHANGED <<pngVars, sigVars, rdVars>>

getCurrentEntryNumber ==
    /\ logOp' = LogRet("getCurrentEntryNumber", FALSE)
    /\ UNCHANGED <<entryNumber, autoSync, pending, logFile, nCompleted>>
    /\ UNCHANGED <<pngVars, sigVars, rdVars>>

sync(fsOk) ==
    /\ logOp' = LogRet("sync", ~fsOk)
    /\ UNCHANGED <<entryNumber, autoSync, pending, logFile, nCompleted>>
    /\ UNCHANGED <<pngVars, sigVars, rdVars>>

setAutoSync(state) ==
    /\ autoSync' = state
    /\ logOp' = LogRet("setAutoSync", FALSE)
    /\ UNCHANGED <<entryNumber, pending, logFile, nCompleted>>
    /\ UNCHANGED <<pngVars, sigVars, rdVars>>

(***************************************************************************)
(* Initial states and specifications, one per component; the components    *)
(* share nothing, and a specification leaves the others parked.            *)
(***************************************************************************)
InitPNG ==
    /\ img \in {i \in Images : WellFormed(i)}
    /\ identifier = "image-1"
    /\ cbRaises \in BOOLEAN
    /\ littleEndian \in BOOLEAN
    /\ pc = "new"
    /\ meta = NoMeta
    /\ liveSessions = 0
    /\ trace = <<>>
    /\ result = NoExc
    /\ raw = NoRaw
    /\ prevRaw = NoRaw
    /\ calls = 0
    /\ lastOp = "none"

ParkPNG ==
    /\ img = Image(0, 8, FALSE, NoPHYs, 1, 1, HdrLen + PixLen, "none")
    /\ identifier = "image-1"
    /\ cbRaises = FALSE
    /\ littleEndian = TRUE
    /\ pc = "new"
    /\ meta = NoMeta
    /\ liveSessions = 0
    /\ trace = <<>>
    /\ result = NoExc
    /\ raw = NoRaw
    /\ prevRaw = NoRaw
    /\ calls = 0
    /\ lastOp = "none"

InitSig ==
    /\ sigData \in Buffers
    /\ sigResult = [called |-> FALSE, value |-> FALSE]

ParkSig ==
    /\ sigData = <<>>
    /\ sigResult = [called |-> FALSE, value |-> FALSE]

InitRd ==
    /\ input \in {[data |-> d, size |-> Len(d), offset |-> 0] :
                    d \in SeqsUpTo({0, 1}, MaxSize)}
    /\ rdReq = [made |-> FALSE, length |-> 0, before |-> 0]
    /\ rdOut = [exc |-> NoExc, copied |-> <<>>, readIdx |-> {}]

ParkRd ==
    /\ input = [data |-> <<>>, size |-> 0, offset |-> 0]
    /\ rdReq = [made |-> FALSE, length |-> 0, before |-> 0]
    /\ rdOut = [exc |-> NoExc, copied |-> <<>>, readIdx |-> {}]

InitLog ==
    /\ entryNumber = FirstEntryNumber
    /\ autoSync = FALSE
    /\ pending = <<>>
    /\ logFile = <<>>
    /\ nCompleted = [write |-> 0, newEntry |-> 0]
    /\ logOp = LogRet("LogSheet", FALSE)

Init == InitPNG /\ ParkSig /\ ParkRd /\ InitLog
Next ==
    \/ \E alloc \in {"ok", "noReadStruct", "noInfoStruct"} : PNG(alloc)
    \/ \E alloc \in {"ok", "noReadStruct", "noInfoStruct"} : getRawData(alloc)
Spec == Init /\ [][Next]_vars

InitIsPNG == ParkPNG /\ InitSig /\ ParkRd /\ InitLog
NextIsPNG == IsPNGCall
SpecIsPNG == InitIsPNG /\ [][NextIsPNG]_vars

InitRead == ParkPNG /\ ParkSig /\ InitRd /\ InitLog
NextRead == \E length \in 0..MaxReq : ReadMemSrc(length)
SpecRead == InitRead /\ [][NextRead]_vars

InitLogSheet == ParkPNG /\ ParkSig /\ ParkRd /\ InitLog
NextLogSheet ==
    \/ \E entry \in Texts, fsOk \in BOOLEAN : write(entry, fsOk)
    \/ \E fsOk \in BOOLEAN : newEntry(fsOk)
    \/ \E text \in Texts : StreamInsert(text)
    \/ getCurrentEntry
    \/ resetCurrentEntry
    \/ getCurrentEntryNumber
    \/ \E fsOk \in BOOLEAN : sync(fsOk)
    \/ \E state \in BOOLEAN : setAutoSync(state)
SpecLogSheet == InitLogSheet /\ [][NextLogSheet]_vars

(***************************************************************************)
(* Properties.                                                             *)
(***************************************************************************)
Pos(e) == {i \in DOMAIN trace : trace[i].ev = e}
Before(A, B) == \A i \in A, j \in B : i < j
AfterPNG == lastOp = "PNG" /\ result = NoExc
AfterGetRawData == lastOp = "getRawData" /\ result = NoExc

\* C1: whenever the codec reports an error during construction or
\* getRawData, the status callback is called with the codec's message and
\* the adapter's identifier before the call ends, and the call ends with
\* StrategyError carrying the codec's message, whatever the callback does.
C1_ErrorIsStrategyError ==
    \A i \in Pos("png_error") :
        /\ i + 1 \in DOMAIN trace
        /\ trace[i + 1].ev = "statusCallback"
        /\ trace[i + 1].id = identifier
        /\ trace[i + 1].msg \in {CodecMsg("header"), CodecMsg("pixels")}
        /\ result = StrategyError(trace[i + 1].msg)

\* C2: the buffer a successful getRawData returns has length row stride x
\* height, row r is written at offset r x row stride, and every row slice
\* lies inside the buffer.
C2_BufferIsStrideTimesHeight ==
    AfterGetRawData =>
        /\ raw.height = img.height
        /\ raw.len = WMul(raw.rowbytes, raw.height)
        /\ \A r \in 0..(raw.height - 1) :
            /\ raw.rowPtrs[r] = WMul(raw.rowbytes, r)
            /\ WLeq(WAdd(raw.rowPtrs[r], raw.rowbytes), raw.len)

\* C3: isPNG is false for every buffer of at most 8 bytes, the signature
\* itself included; for a longer buffer it is true exactly when the first 8
\* bytes are the PNG signature; the call changes nothing else.
C3_IsPNG ==
    /\ [](sigResult.called =>
            /\ Len(sigData) <= 8 => ~sigResult.value
            /\ Len(sigData) > 8 =>
                (sigResult.value <=>
                    SubSeq(sigData, 1, 8) = <<137, 80, 78, 71, 13, 10, 26, 10>>))
    /\ [][sigResult'.called =>
            /\ sigData' = sigData
            /\ UNCHANGED <<pngVars, rdVars, logVars>>]_vars

C3_Witness ==
    /\ sigResult.called
    /\ sigData = Signature
    /\ ~sigResult.value

\* C4: after a successful construction the color depth is bit depth x
\* channels, except that a color type with the palette bit and a product of
\* at most 8 gives 24; the bit depth is the header's.
C4_ColorDepth ==
    AfterPNG =>
        LET product == img.bitDepth * png_get_channels(img.colorType) IN
        /\ meta.bitDepth = img.bitDepth
        /\ meta.colorDepth =
             (IF img.colorType % 2 = 1 /\ product <= 8 THEN 24 ELSE product)
        /\ (img.colorType = 3 /\ img.bitDepth \in {1, 2, 4, 8}) => meta.colorDepth = 24

C4_Witness ==
    /\ AfterPNG
    /\ img.colorType = 3
    /\ img.bitDepth = 2
    /\ meta.colorDepth = 24

\* C5: after a successful construction the resolution is (xres/100,
\* yres/100) pixels per centimeter when the pHYs block is present with unit
\* meter, (0, 0) pixels per centimeter when it is present with any other
\* unit, and (72, 72) pixels per inch when it is absent.
RatEq(a, b) == a[1] * b[2] = b[1] * a[2]
C5_Resolution ==
    AfterPNG =>
        /\ (img.pHYs.present /\ img.pHYs.type = 1) =>
            /\ meta.res.units = "PPCM"
            /\ RatEq(meta.res.xRes, <<img.pHYs.xres, 100>>)
            /\ RatEq(meta.res.yRes, <<img.pHYs.yres, 100>>)
            /\ img.pHYs.xres = 3937 => RatEq(meta.res.xRes, <<3937, 100>>)
        /\ (img.pHYs.present /\ img.pHYs.type # 1) =>
            /\ meta.res.units = "PPCM"
            /\ RatEq(meta.res.xRes, <<0, 1>>)
            /\ RatEq(meta.res.yRes, <<0, 1>>)
        /\ ~img.pHYs.present =>
            /\ meta.res.units = "PPI"
            /\ RatEq(meta.res.xRes, <<72, 1>>)
            /\ RatEq(meta.res.yRes, <<72, 1>>)

C5_Witness ==
    /\ AfterPNG
    /\ img.pHYs.present
    /\ img.pHYs.type = 7
    /\ meta.res = Resolution(Whole(0), Whole(0), "PPCM")

\* C6: the entry counter starts at 0 and equals the number of completed
\* write and newEntry calls; each of them adds one, every other operation
\* leaves it alone, it never decreases.
C6_EntryCounter ==
    /\ [](/\ entryNumber = nCompleted.write + nCompleted.newEntry
          /\ nCompleted.newEntry = 0 => entryNumber = nCompleted.write)
    /\ [][/\ entryNumber' >= entryNumber
          /\ (logOp'.op \in {"write", "newEntry"} /\ ~logOp'.threw)
                => entryNumber' = entryNumber + 1
          /\ logOp'.op \in {"getCurrentEntry", "resetCurrentEntry",
                            "getCurrentEntryNumber", "sync", "setAutoSync"}
                => entryNumber' = entryNumber]_vars

C6_Witness ==
    /\ nCompleted.write = 2
    /\ nCompleted.newEntry = 1
    /\ entryNumber = 3
    /\ logOp.op = "getCurrentEntryNumber"

\* C7: getRawData leaves the encoded data and the metadata as construction
\* set them, and a successful call returns the same buffer as the successful
\* call before it.
C7_GetRawDataChangesNothing ==
    [][lastOp' = "getRawData" =>
        /\ img' = img
        /\ meta' = meta
        /\ (result' = NoExc /\ raw # NoRaw) => raw' = raw]_vars

\* C8: no codec session outlives the call that created it, however the call
\* ends.
C8_NoSessionOutlivesCall == liveSessions = 0

\* C9: the read callback keeps 0 <= offset <= size; a request for L bytes
\* succeeds exactly when L <= size - offset, copies bytes [offset, offset+L)
\* and advances offset by L; otherwise it fails with StrategyError, copies
\* nothing and leaves offset alone; no byte outside the source is read.
C9_ReadStaysInside ==
    /\ 0 <= input.offset
    /\ input.offset <= input.size
    /\ rdReq.made =>
        LET ok == rdReq.length <= input.size - rdReq.before IN
        /\ (rdOut.exc = NoExc) <=> ok
        /\ ok => /\ rdOut.copied = SubSeq(input.data, rdReq.before + 1,
                                          rdReq.before + rdReq.length)
                 /\ input.offset = rdReq.before + rdReq.length
        /\ ~ok => /\ rdOut.exc.kind = "StrategyError"
                  /\ rdOut.copied = <<>>
                  /\ input.offset = rdReq.before
        /\ rdOut.readIdx \subseteq 1..input.size

C9_Witness ==
    /\ rdReq.made
    /\ rdReq.before > 0
    /\ rdReq.length <= input.size
    /\ rdOut.exc = StrategyError("Attempted to read more data than available")
    /\ input.offset = rdReq.before

\* C10: in a getRawData call png_read_update_info is called at most once,
\* only if a transformation was requested, after png_read_info and after
\* every transformation request (swap, gray expansion, palette to RGB, tRNS
\* to alpha, in that order), and before the row stride is queried and the
\* pixels are read.
TransformEvents ==
    <<"png_set_swap", "png_set_expand_gray_1_2_4_to_8",
      "png_set_palette_to_rgb", "png_set_tRNS_to_alpha">>
C10_UpdateInfoOnce ==
    lastOp = "getRawData" =>
        /\ Cardinality(Pos("png_create_read_struct")) <= 1
        /\ Cardinality(Pos("png_read_update_info")) <= 1
        /\ Pos("png_read_update_info") # {} =>
            \E k \in 1..4 : Pos(TransformEvents[k]) # {}
        /\ Before(Pos("png_read_info"), Pos("png_read_update_info"))
        /\ \A k \in 1..4 :
            /\ Before(Pos("png_read_info"), Pos(TransformEvents[k]))
            /\ Before(Pos(TransformEvents[k]), Pos("png_read_update_info"))
            /\ \A m \in (k + 1)..4 :
                Before(Pos(TransformEvents[k]), Pos(TransformEvents[m]))
        /\ Before(Pos("png_read_update_info"), Pos("png_get_rowbytes"))
        /\ Before(Pos("png_read_update_info"), Pos("png_read_image"))
        /\ Before(Pos("png_get_rowbytes"), Pos("png_read_image"))

C10_Witness ==
    /\ AfterGetRawData
    /\ Pos("png_set_swap") # {}
    /\ Pos("png_set_tRNS_to_alpha") # {}
    /\ Pos("png_read_update_info") # {}
    /\ Pos("png_read_image") # {}

====
